---- MODULE Spec2Model ----
(***************************************************************************)
(* Model of app.py: the Koch curve generator (koch_curve, koch_two_sides,  *)
(* koch_snowflake), the query-parameter helpers and the /plot handler.     *)
(*                                                                         *)
(* Numbers.  The code computes with floats; the model computes the same    *)
(* expressions exactly, for angles that are multiples of 60 degrees, on    *)
(* the triangular lattice these angles generate:                           *)
(*   - a length l is the integer l * Unit (Unit stands for 1.0);           *)
(*   - a point (x, y) is the pair <<X, Y>> with x = X / (2 * Unit) and     *)
(*     y = Y * sqrt(3) / (2 * Unit);                                       *)
(*   - 2*cos and (2/sqrt(3))*sin of a multiple of 60 degrees are integers. *)
(* Unit is a power of 3 large enough that every length / 3.0 the code      *)
(* performs before the interpreter's recursion limit is an exact division. *)
(* Equality in the model is therefore equality "within tolerance" of the   *)
(* floats.                                                                 *)
(***************************************************************************)
EXTENDS Integers, Sequences, FiniteSets, TLC

VARIABLES call, result, stack, req, resp

vars == <<call, result, stack, req, resp>>

\* ---------------------------------------------------------------- bounds
\* Largest order the function-level specifications draw.
MaxOrder == 7

\* Frames the interpreter allows before it raises RecursionError
\* (sys.getrecursionlimit(), 1000 by default; capped for the model).
RecursionLimit == 9

\* Largest length factor drawn (length = k * 1.0, k in 1..MaxLen).
MaxLen == 2

\* ------------------------------------------------------------- numbers
Unit == 3 ^ RecursionLimit

NoResult == [kind |-> "none"]

RecursionError(depth) == [kind |-> "raised", type |-> "RecursionError", frames |-> depth]

Returned(pts) == [kind |-> "returned", value |-> pts]

\* length / 3.0
Third(length) == length \div 3

\* 2 * math.cos(math.radians(angle_deg)), angle_deg a multiple of 60.
Cos2(angle_deg) ==
    LET r == angle_deg % 360
    IN  CASE r = 0   -> 2
          [] r = 60  -> 1
          [] r = 120 -> -1
          [] r = 180 -> -2
          [] r = 240 -> -1
          [] r = 300 -> 1

\* (2 / sqrt(3)) * math.sin(math.radians(angle_deg)), angle_deg a multiple of 60.
SinH(angle_deg) ==
    LET r == angle_deg % 360
    IN  CASE r = 0   -> 0
          [] r = 60  -> 1
          [] r = 120 -> 1
          [] r = 180 -> 0
          [] r = 240 -> -1
          [] r = 300 -> -1

\* (p[0] + d * cos(rad), p[1] + d * sin(rad))
Advance(p, d, angle_deg) ==
    <<p[1] + d * Cos2(angle_deg), p[2] + d * SinH(angle_deg)>>

\* ---------------------------------------------------------- koch_curve
\* The test `order == 0`.
IsBaseCaseOrBelow(order) == order <= 0

IsBaseCase(order) == order = 0

\* Base case: [start, end].
BaseSegment(length, start, angle_deg) ==
    <<start, Advance(start, length, angle_deg)>>

\* The anchors a, b, c, d of the recursive case.
AnchorA(length, start, angle_deg) == start

AnchorB(length, start, angle_deg) ==
    Advance(AnchorA(length, start, angle_deg), Third(length), angle_deg)

AnchorC(length, start, angle_deg) ==
    Advance(AnchorB(length, start, angle_deg), Third(length), angle_deg + 60)

AnchorDSameTurn(length, start, angle_deg) ==
    Advance(AnchorC(length, start, angle_deg), Third(length), angle_deg + 60)

AnchorD(length, start, angle_deg) ==
    Advance(AnchorC(length, start, angle_deg), Third(length), angle_deg - 60)

\* Start point and angle of leg i (1..4).
LegStart(i, length, start, angle_deg) ==
    CASE i = 1 -> AnchorA(length, start, angle_deg)
      [] i = 2 -> AnchorB(length, start, angle_deg)
      [] i = 3 -> AnchorC(length, start, angle_deg)
      [] i = 4 -> AnchorD(length, start, angle_deg)

LegAngle(i, angle_deg) ==
    CASE i = 1 -> angle_deg
      [] i = 2 -> angle_deg + 60
      [] i = 3 -> angle_deg - 60
      [] i = 4 -> angle_deg

\* lst[:-1]
DropLast(lst) == SubSeq(lst, 1, Len(lst) - 1)

\* pts += leg[:-1] for legs 1..3, pts += leg for leg 4.
AppendLegKeepAll(pts, i, leg) == pts \o leg

AppendLegDropAll(pts, i, leg) == pts \o DropLast(leg)

AppendLeg(pts, i, leg) ==
    IF i < 4 THEN pts \o DropLast(leg) ELSE pts \o leg

\* koch_curve called at interpreter depth `depth`; the value is Returned(pts)
\* or the RecursionError that unwinds through every caller.
RECURSIVE KochRec(_, _, _, _, _)
RECURSIVE KochLegs(_, _, _, _, _, _, _)

\* Legs i..4 of the recursive case, appended to pts in order.
KochLegs(i, pts, order, length, start, angle_deg, depth) ==
    IF i > 4 THEN Returned(pts)
    ELSE LET leg == KochRec(order - 1, Third(length),
                            LegStart(i, length, start, angle_deg),
                            LegAngle(i, angle_deg), depth + 1)
         IN  IF leg.kind = "raised" THEN leg
             ELSE KochLegs(i + 1, AppendLeg(pts, i, leg.value),
                           order, length, start, angle_deg, depth)

KochRec(order, length, start, angle_deg, depth) ==
    IF depth > RecursionLimit THEN RecursionError(RecursionLimit)
    ELSE IF IsBaseCase(order) THEN Returned(BaseSegment(length, start, angle_deg))
    ELSE KochLegs(1, <<>>, order, length, start, angle_deg, depth)

koch_curve(order, length, start, angle_deg) ==
    KochRec(order, length, start, angle_deg, 1)

\* ------------------------------------------- koch_two_sides, koch_snowflake
\* The value of a sequence of koch_curve calls made one after the other: the
\* list of their polylines, or the first RecursionError.
RECURSIVE Sides(_, _, _)
Sides(order, length, sides) ==
    IF sides = <<>> THEN Returned(<<>>)
    ELSE LET first == koch_curve(order, length, Head(sides)[1], Head(sides)[2])
         IN  IF first.kind = "raised" THEN first
             ELSE LET rest == Sides(order, length, Tail(sides))
                  IN  IF rest.kind = "raised" THEN rest
                      ELSE Returned(<<first.value>> \o rest.value)

\* (start, angle_deg) of side1 and side2.
TwoSidesArgs(length) ==
    << <<(<<-length, 0>>), 0>>, <<(<<0, 0>>), 60>> >>

koch_two_sides(order, length) == Sides(order, length, TwoSidesArgs(length))

\* (start, angle_deg) of side1, side2, side3: p1, p2, p3 with h = sqrt(3)/2 * length.
SnowflakeArgsSameTurn(length) ==
    << <<(<<-length, 0>>), 0>>, <<(<<length, 0>>), 120>>, <<(<<0, length>>), 120>> >>

SnowflakeArgs(length) ==
    << <<(<<-length, 0>>), 0>>, <<(<<length, 0>>), 120>>, <<(<<0, length>>), -120>> >>

koch_snowflake(order, length) == Sides(order, length, SnowflakeArgs(length))

\* ------------------------------------------------ function-level inputs
Orders == 0 .. MaxOrder

Lengths == {k * Unit : k \in 1 .. MaxLen}

\* (start, angle_deg): all six directions, two of them not normalised to
\* 0..359, from the origin and from another lattice point.
StartAngles ==
    {<<(<<0, 0>>), 0>>, <<(<<0, 0>>), 60>>, <<(<<0, 0>>), 180>>,
     <<(<<-Unit, 2 * Unit>>), -120>>, <<(<<-Unit, 2 * Unit>>), -60>>,
     <<(<<-Unit, 2 * Unit>>), 480>>}

NoReq == [kind |-> "none"]

NoResp == [kind |-> "none"]

CurveCalls ==
    {[fn |-> "koch_curve", order |-> o, length |-> l, start |-> sa[1], angle_deg |-> sa[2]] :
        o \in Orders, l \in Lengths, sa \in StartAngles}

ShapeCalls ==
    {[fn |-> f, order |-> o, length |-> l] :
        f \in {"koch_two_sides", "koch_snowflake"}, o \in Orders, l \in Lengths}

\* A call of one of the three generators with valid arguments.
Init ==
    /\ call \in CurveCalls \cup ShapeCalls
    /\ result = NoResult
    /\ stack = <<>>
    /\ req = NoReq
    /\ resp = NoResp

RunKochCurve ==
    /\ call.fn = "koch_curve"
    /\ result = NoResult
    /\ result' = koch_curve(call.order, call.length, call.start, call.angle_deg)
    /\ UNCHANGED <<call, stack, req, resp>>

RunTwoSides ==
    /\ call.fn = "koch_two_sides"
    /\ result = NoResult
    /\ result' = koch_two_sides(call.order, call.length)
    /\ UNCHANGED <<call, stack, req, resp>>

RunSnowflake ==
    /\ call.fn = "koch_snowflake"
    /\ result = NoResult
    /\ result' = koch_snowflake(call.order, call.length)
    /\ UNCHANGED <<call, stack, req, resp>>

Next == RunKochCurve \/ RunTwoSides \/ RunSnowflake

Spec == Init /\ [][Next]_vars

\* ------------------------------------------------- function-level claims
Pow4(n) == 4 ^ n

Last(lst) == lst[Len(lst)]

CurveReturned == call.fn = "koch_curve" /\ result.kind = "returned"

\* C1: koch_curve(order, length, start, angle_deg) with order in 0..MaxOrder and
\* length > 0 returns a polyline of exactly 4^order + 1 points (2 points for
\* order 0).
C1_PointCount ==
    (call.fn = "koch_curve" /\ result # NoResult) =>
        /\ result.kind = "returned"
        /\ Len(result.value) = Pow4(call.order) + 1
        /\ (call.order = 0 => Len(result.value) = 2)

C1_Witness == CurveReturned /\ call.order = 2 /\ Len(result.value) = 17

\* C2: the first point of the polyline is start, and the last point is start
\* advanced by length at angle_deg (the end of the order-0 segment).
C2_EndPoints ==
    (call.fn = "koch_curve" /\ result # NoResult) =>
        /\ result.kind = "returned"
        /\ result.value[1] = call.start
        /\ Last(result.value) =
              <<call.start[1] + call.length * Cos2(call.angle_deg),
                call.start[2] + call.length * SinH(call.angle_deg)>>

C2_Witness ==
    CurveReturned /\ call.order = 3 /\ call.angle_deg = 480 /\ call.start # <<0, 0>>

\* The polyline of leg i of the current koch_curve call.
LegOf(i) ==
    koch_curve(call.order - 1, Third(call.length),
               LegStart(i, call.length, call.start, call.angle_deg),
               LegAngle(i, call.angle_deg)).value

NoConsecutiveDup(lst) == \A k \in 1 .. Len(lst) - 1 : lst[k] # lst[k + 1]

\* C9: for order > 0 the polyline is the four order-(n-1) legs from a, b, c, d,
\* the last point dropped from legs 1..3 being the first point of the next leg,
\* and no two consecutive points of the polyline are equal.
C9_SeamsNotDuplicated ==
    (CurveReturned /\ call.order > 0) =>
        /\ \A i \in 1 .. 3 : Last(LegOf(i)) = LegOf(i + 1)[1]
        /\ result.value =
              DropLast(LegOf(1)) \o DropLast(LegOf(2)) \o DropLast(LegOf(3)) \o LegOf(4)
        /\ NoConsecutiveDup(result.value)

C9_Witness ==
    CurveReturned /\ call.order = 2 /\ call.angle_deg = -60
        /\ result.value[5] = LegStart(2, call.length, call.start, call.angle_deg)

\* C3: the three sides of koch_snowflake close up: the last point of side i is
\* the first point of side (i + 1) mod 3.
C3_SnowflakeClosed ==
    (call.fn = "koch_snowflake" /\ result # NoResult) =>
        /\ result.kind = "returned"
        /\ Len(result.value) = 3
        /\ \A i \in 1 .. 3 :
              Last(result.value[i]) = result.value[(i % 3) + 1][1]

C3_Witness ==
    call.fn = "koch_snowflake" /\ result.kind = "returned" /\ call.order = 3
        /\ Len(result.value[3]) = 65

EndPoints(lst) == {lst[1], Last(lst)}

\* C7: the two polylines of koch_two_sides share a vertex: an end point of the
\* first coincides with an end point of the second.
C7_SharedVertex ==
    (call.fn = "koch_two_sides" /\ result.kind = "returned") =>
        EndPoints(result.value[1]) \cap EndPoints(result.value[2]) # {}

\* ------------------------------------------- koch_curve, frame by frame
\* The same function with the interpreter's call stack made explicit: one
\* frame per active call, the innermost last.  A frame holds the call's
\* arguments, the list pts built so far and the leg whose call comes next
\* (5: every leg has been appended).

\* Largest order the frame-level specification draws.
MaxRecOrder == 5

NewFrame(order, length, start, angle_deg) ==
    [order |-> order, length |-> length, start |-> start,
     angle_deg |-> angle_deg, leg |-> 1, pts |-> <<>>]

\* The frame of koch_curve(order - 1, seg, <anchor of the leg>, <angle of the leg>).
ChildFrameSameOrder(f) ==
    NewFrame(f.order, Third(f.length),
             LegStart(f.leg, f.length, f.start, f.angle_deg),
             LegAngle(f.leg, f.angle_deg))

ChildFrame(f) ==
    NewFrame(f.order - 1, Third(f.length),
             LegStart(f.leg, f.length, f.start, f.angle_deg),
             LegAngle(f.leg, f.angle_deg))

Top == stack[Len(stack)]

Callers == SubSeq(stack, 1, Len(stack) - 1)

\* The innermost call returns `value`: to its caller, which appends it to
\* pts, or out of the outermost call.
Deliver(value) ==
    IF Len(stack) = 1
    THEN /\ stack' = <<>>
         /\ result' = Returned(value)
    ELSE LET caller == stack[Len(stack) - 1]
         IN  /\ stack' = [Callers EXCEPT ![Len(stack) - 1] =
                            [caller EXCEPT !.pts = AppendLeg(caller.pts, caller.leg, value),
                                           !.leg = caller.leg + 1]]
             /\ UNCHANGED result

RecCalls ==
    {[fn |-> "koch_curve", order |-> o, length |-> l, start |-> <<0, 0>>, angle_deg |-> a] :
        o \in -2 .. MaxRecOrder, l \in {k * Unit : k \in -1 .. 1}, a \in {0, -60}}

\* A call of koch_curve with any arguments, the invalid ones included.
InitRec ==
    /\ call \in RecCalls
    /\ stack = <<NewFrame(call.order, call.length, call.start, call.angle_deg)>>
    /\ result = NoResult
    /\ req = NoReq
    /\ resp = NoResp

\* if order == 0: return [start, end]
BaseCase ==
    /\ stack # <<>>
    /\ IsBaseCase(Top.order)
    /\ Deliver(BaseSegment(Top.length, Top.start, Top.angle_deg))
    /\ UNCHANGED <<call, req, resp>>

\* pts += koch_curve(order - 1, seg, ...): the call is made.
Recurse ==
    /\ stack # <<>>
    /\ ~IsBaseCase(Top.order)
    /\ Top.leg <= 4
    /\ Len(stack) < RecursionLimit
    /\ stack' = Append(stack, ChildFrame(Top))
    /\ UNCHANGED <<call, result, req, resp>>

\* The same call with the stack full: RecursionError unwinds every frame.
RaiseRecursionError ==
    /\ stack # <<>>
    /\ ~IsBaseCase(Top.order)
    /\ Top.leg <= 4
    /\ Len(stack) >= RecursionLimit
    /\ stack' = <<>>
    /\ result' = RecursionError(Len(stack))
    /\ UNCHANGED <<call, req, resp>>

\* return pts
ReturnPts ==
    /\ stack # <<>>
    /\ ~IsBaseCase(Top.order)
    /\ Top.leg = 5
    /\ Deliver(Top.pts)
    /\ UNCHANGED <<call, req, resp>>

NextRec == BaseCase \/ Recurse \/ RaiseRecursionError \/ ReturnPts

SpecRec == InitRec /\ [][NextRec]_vars

\* The interpreter keeps running the call until it returns or raises.
SpecRecFair == SpecRec /\ WF_vars(NextRec)

\* --------------------------------------------------- frame-level claims
\* Frame by frame the call computes what koch_curve computes.
RecAgreesWithKochCurve ==
    result # NoResult =>
        result = koch_curve(call.order, call.length, call.start, call.angle_deg)

InvalidCall == call.order < 0 \/ call.length <= 0

\* C6 (as claimed): koch_curve called with a negative order or a length <= 0
\* raises immediately: it returns no polyline and makes no nested call.
C6_RaisesImmediately ==
    InvalidCall => (result.kind # "returned" /\ Len(stack) <= 1)

\* C6 (amended): with a negative order koch_curve returns no polyline, every
\* nested call has a smaller negative order and the only failure is the
\* RecursionError raised when the stack is full; with order >= 0 and
\* length <= 0 it raises nothing and returns 4^order + 1 points.
C6_FailsOnlyAtRecursionLimit ==
    /\ call.order < 0 =>
          /\ result.kind # "returned"
          /\ result.kind = "raised" => result.frames = RecursionLimit
          /\ \A i \in 1 .. Len(stack) : stack[i].order = call.order - (i - 1)
    /\ (call.order >= 0 /\ call.length <= 0) =>
          /\ result.kind # "raised"
          /\ result.kind = "returned" => Len(result.value) = Pow4(call.order) + 1

C6_Witness ==
    call.order = -1 /\ call.length = 0 /\ result.kind = "raised" /\ stack = <<>>

\* Every nested call has the order of its caller minus one, and there are at
\* most order + 1 frames.
ChainDecreases ==
    /\ \A i \in 1 .. Len(stack) : stack[i].order = call.order - (i - 1)
    /\ Len(stack) <= call.order + 1

\* C10: for an order >= 0 every chain of nested calls decreases order by one
\* down to the base case, so there are never more than order + 1 frames, and
\* the call eventually returns a result.
C10_Terminates ==
    /\ [](call.order >= 0 => ChainDecreases)
    /\ [](call.order >= 0 => <>(result.kind = "returned"))

C10_Witness ==
    call.order = 3 /\ Len(stack) = 4 /\ Top.order = 0 /\ stack[1].leg = 4

\* ------------------------------------------------------ Python values
\* A str is the sequence of the code points of its characters; an int is
\* itself; a float is a decimal numeral (or an infinity, or a NaN) and stands
\* for the binary64 number nearest to it.
PyStr(codes) == [t |-> "str", v |-> codes]

PyInt(n) == [t |-> "int", v |-> n]

PyFloat(x) == [t |-> "float", v |-> x]

None == [t |-> "none"]

\* The printable ASCII characters: code points 32 to 95, and 97 to 126.
AsciiChars ==
    <<" ", "!", "\"", "#", "$", "%", "&", "'", "(", ")", "*", "+", ",", "-", ".", "/",
      "0", "1", "2", "3", "4", "5", "6", "7", "8", "9", ":", ";", "<", "=", ">", "?",
      "@", "A", "B", "C", "D", "E", "F", "G", "H", "I", "J", "K", "L", "M", "N", "O",
      "P", "Q", "R", "S", "T", "U", "V", "W", "X", "Y", "Z", "[", "\\", "]", "^", "_">>

AsciiCharsFromA ==
    <<"a", "b", "c", "d", "e", "f", "g", "h", "i", "j", "k", "l", "m", "n", "o",
      "p", "q", "r", "s", "t", "u", "v", "w", "x", "y", "z", "{", "|", "}", "~">>

\* ord(c) for a printable ASCII character c
Ord(c) ==
    IF \E i \in 1 .. Len(AsciiChars) : AsciiChars[i] = c
    THEN 31 + CHOOSE i \in 1 .. Len(AsciiChars) : AsciiChars[i] = c
    ELSE 96 + CHOOSE i \in 1 .. Len(AsciiCharsFromA) : AsciiCharsFromA[i] = c

\* The code points of a string literal written character by character.
Code(chars) == [i \in 1 .. Len(chars) |-> Ord(chars[i])]

\* c.lower(), as far as a comparison with an ASCII string can tell: the
\* letters A to Z are lowered, and no other character lowers to an ASCII
\* letter of "svg", "nan", "inf" or "infinity".
LowerChar(c) == IF c \in Ord("A") .. Ord("Z") THEN c + (Ord("a") - Ord("A")) ELSE c

\* s.lower()
Lower(codes) == [i \in 1 .. Len(codes) |-> LowerChar(codes[i])]

\* The code points of the digit zero of every run 0..9 of decimal digits
\* (category Nd, Unicode 14.0): ASCII, Arabic-Indic, ..., fullwidth, ...
DecimalZeros ==
    {48, 1632, 1776, 1984, 2406, 2534, 2662, 2790, 2918, 3046, 3174, 3302,
     3430, 3558, 3664, 3792, 3872, 4160, 4240, 6112, 6160, 6470, 6608, 6784,
     6800, 6992, 7088, 7232, 7248, 42528, 43216, 43264, 43472, 43504, 43600,
     44016, 65296, 66720, 68912, 69734, 69872, 69942, 70096, 70384, 70736,
     70864, 71248, 71360, 71472, 71904, 72016, 72784, 73040, 73120, 92768,
     92864, 93008, 120782, 120792, 120802, 120812, 120822, 123200, 123632,
     125264, 130032}

\* int() and float() read every decimal digit as its value.
IsDigit(c) == \E z \in DecimalZeros : c \in z .. z + 9

DigitVal(c) == c - (CHOOSE z \in DecimalZeros : c \in z .. z + 9)

\* The values of a sequence of digits.
DigitVals(codes) == [i \in 1 .. Len(codes) |-> DigitVal(codes[i])]

\* The number written with at most nine digit values.
RECURSIVE DigitsValue(_)
DigitsValue(digits) ==
    IF digits = <<>> THEN 0
    ELSE 10 * DigitsValue(DropLast(digits)) + Last(digits)

\* The blanks int() and float() strip from both ends: \t \n \v \f \r, the
\* space, U+0085, U+00A0, U+1680, U+2000 to U+200A, U+2028, U+2029, U+202F,
\* U+205F and U+3000.
IsSpace(c) ==
    c \in {9, 10, 11, 12, 13, 32, 133, 160, 5760} \cup (8192 .. 8202)
          \cup {8232, 8233, 8239, 8287, 12288}

Strip(codes) ==
    IF \A i \in 1 .. Len(codes) : IsSpace(codes[i]) THEN <<>>
    ELSE LET first == CHOOSE i \in 1 .. Len(codes) :
                         ~IsSpace(codes[i]) /\ \A j \in 1 .. i - 1 : IsSpace(codes[j])
             last  == CHOOSE i \in 1 .. Len(codes) :
                         ~IsSpace(codes[i]) /\ \A j \in i + 1 .. Len(codes) : IsSpace(codes[j])
         IN  SubSeq(codes, first, last)

HasSign(codes) == codes # <<>> /\ codes[1] \in {Ord("+"), Ord("-")}

Unsigned(codes) == IF HasSign(codes) THEN Tail(codes) ELSE codes

SignOf(codes) == IF codes # <<>> /\ codes[1] = Ord("-") THEN -1 ELSE 1

\* One or more digits, with single underscores allowed between digits.
DigitGroupOk(codes) ==
    /\ codes # <<>>
    /\ IsDigit(codes[1])
    /\ IsDigit(codes[Len(codes)])
    /\ \A i \in 1 .. Len(codes) : IsDigit(codes[i]) \/ codes[i] = Ord("_")
    /\ \A i \in 1 .. Len(codes) - 1 : ~(codes[i] = Ord("_") /\ codes[i + 1] = Ord("_"))

IsNotUnderscore(c) == c # Ord("_")

\* The digit values of a digit group.
DigitsOf(codes) == DigitVals(SelectSeq(codes, IsNotUnderscore))

\* digits without its leading zeros (<<>> when it is zero).
Significant(digits) ==
    IF \A i \in 1 .. Len(digits) : digits[i] = 0 THEN <<>>
    ELSE SubSeq(digits,
                CHOOSE i \in 1 .. Len(digits) :
                    digits[i] # 0 /\ \A j \in 1 .. i - 1 : digits[j] = 0,
                Len(digits))

\* digits without its trailing zeros.
NoTrailingZeros(digits) ==
    IF \A i \in 1 .. Len(digits) : digits[i] = 0 THEN <<>>
    ELSE SubSeq(digits, 1,
                CHOOSE i \in 1 .. Len(digits) :
                    digits[i] # 0 /\ \A j \in i + 1 .. Len(digits) : digits[j] = 0)

\* The most digits int() converts from a str: sys.get_int_max_str_digits(),
\* the interpreter's default.
MaxStrDigits == 4300

\* An int too large for the model's integers is held as Huge (with its
\* sign): larger in magnitude than every bound it is compared with.
Huge == 10 ^ 9

\* int(v) succeeds: v is an int, or a str that holds, between blanks, an
\* optional sign and a digit group of at most MaxStrDigits digits.
IntOk(v) ==
    \/ v.t = "int"
    \/ /\ v.t = "str"
       /\ DigitGroupOk(Unsigned(Strip(v.v)))
       /\ Len(DigitsOf(Unsigned(Strip(v.v)))) <= MaxStrDigits

IntOf(v) ==
    IF v.t = "int" THEN v.v
    ELSE LET sig == Significant(DigitsOf(Unsigned(Strip(v.v))))
         IN  SignOf(Strip(v.v)) * (IF Len(sig) > 9 THEN Huge ELSE DigitsValue(sig))

Min(a, b) == IF b < a THEN b ELSE a

Max(a, b) == IF b > a THEN b ELSE a

\* _clamp_int(v, vmin, vmax, default)
ClampIntNoFloor(v, vmin, vmax, default) ==
    IF IntOk(v) THEN Min(vmax, IntOf(v)) ELSE default

_clamp_int(v, vmin, vmax, default) ==
    IF IntOk(v) THEN Max(vmin, Min(vmax, IntOf(v))) ELSE default

\* Position of the first character of codes that is in set, 0 when none is.
FirstOf(codes, set) ==
    IF \E i \in 1 .. Len(codes) : codes[i] \in set
    THEN CHOOSE i \in 1 .. Len(codes) :
            codes[i] \in set /\ \A j \in 1 .. i - 1 : codes[j] \notin set
    ELSE 0

Before(codes, at) == IF at = 0 THEN codes ELSE SubSeq(codes, 1, at - 1)

After(codes, at) == IF at = 0 THEN <<>> ELSE SubSeq(codes, at + 1, Len(codes))

\* The parts of an unsigned decimal literal: mantissa, exponent, and the
\* mantissa's digits before and after the ".".
Mantissa(u) == Before(u, FirstOf(u, {Ord("e"), Ord("E")}))

Exponent(u) == After(u, FirstOf(u, {Ord("e"), Ord("E")}))

IntPart(u) == Before(Mantissa(u), FirstOf(Mantissa(u), {Ord(".")}))

FracPart(u) == After(Mantissa(u), FirstOf(Mantissa(u), {Ord(".")}))

IsNanLiteral(u) == Lower(u) = Code(<<"n", "a", "n">>)

IsInfLiteral(u) ==
    Lower(u) \in {Code(<<"i", "n", "f">>), Code(<<"i", "n", "f", "i", "n", "i", "t", "y">>)}

IsDecimalLiteral(u) ==
    /\ IntPart(u) = <<>> \/ DigitGroupOk(IntPart(u))
    /\ FracPart(u) = <<>> \/ DigitGroupOk(FracPart(u))
    /\ Len(IntPart(u)) + Len(FracPart(u)) > 0
    /\ FirstOf(u, {Ord("e"), Ord("E")}) # 0 => DigitGroupOk(Unsigned(Exponent(u)))

\* float(v) succeeds: v is a float, or a str that holds, between blanks, an
\* optional sign and "nan", "inf", "infinity" or a decimal literal.
FloatOk(v) ==
    \/ v.t = "float"
    \/ /\ v.t = "str"
       /\ LET u == Unsigned(Strip(v.v))
          IN  IsNanLiteral(u) \/ IsInfLiteral(u) \/ IsDecimalLiteral(u)

\* The float values: the decimal (-1)^neg * 0.d1d2...dn * 10^exp with every
\* digit kept, d1 # 0 and dn # 0 (no digit: zero); an infinity; a NaN.
Dec(neg, digits, exp) == [k |-> "dec", neg |-> neg, digits |-> digits, exp |-> exp]

Inf(neg) == [k |-> "inf", neg |-> neg, digits |-> <<>>, exp |-> 0]

NaN == [k |-> "nan", neg |-> FALSE, digits |-> <<>>, exp |-> 0]

\* The value of the decimal literal u. An exponent of ten or more
\* significant digits outweighs the digits of the mantissa, of which a query
\* string has fewer than 10^9: the value is then a zero or an infinity.
DecimalOf(neg, u) ==
    LET whole == DigitsOf(IntPart(u))
        mant == whole \o DigitsOf(FracPart(u))
        sig  == Significant(mant)
        esig == Significant(DigitsOf(Unsigned(Exponent(u))))
        eneg == SignOf(Exponent(u)) = -1
    IN  IF sig = <<>> THEN Dec(neg, <<>>, 0)
        ELSE IF Len(esig) > 9 THEN (IF eneg THEN Dec(neg, <<>>, 0) ELSE Inf(neg))
        ELSE Dec(neg, NoTrailingZeros(sig),
                 Len(whole) + SignOf(Exponent(u)) * DigitsValue(esig) - (Len(mant) - Len(sig)))

\* float(v)
FloatOf(v) ==
    IF v.t = "float" THEN v.v
    ELSE LET s == Strip(v.v)
             u == Unsigned(s)
         IN  IF IsNanLiteral(u) THEN NaN
             ELSE IF IsInfLiteral(u) THEN Inf(SignOf(s) = -1)
             ELSE DecimalOf(SignOf(s) = -1, u)

IsZero(x) == x.k = "dec" /\ x.digits = <<>>

\* a < b for two sequences of digits after the decimal point
DigitsLess(a, b) ==
    LET n == Min(Len(a), Len(b))
    IN  IF \E i \in 1 .. n : a[i] # b[i]
        THEN LET i == CHOOSE i \in 1 .. n : a[i] # b[i] /\ \A j \in 1 .. i - 1 : a[j] = b[j]
             IN  a[i] < b[i]
        ELSE Len(a) < Len(b)

\* |x| < |y| for two floats that are not NaNs
MagLess(x, y) ==
    IF x.k = "inf" THEN FALSE
    ELSE IF y.k = "inf" THEN TRUE
    ELSE IF IsZero(x) THEN ~IsZero(y)
    ELSE IF IsZero(y) THEN FALSE
    ELSE IF x.exp # y.exp THEN x.exp < y.exp
    ELSE DigitsLess(x.digits, y.digits)

\* x < y for two floats; a NaN is less than nothing and nothing is less
\* than it, and the two zeros are equal.
FloatLess(x, y) ==
    IF x.k = "nan" \/ y.k = "nan" THEN FALSE
    ELSE IF IsZero(x) /\ IsZero(y) THEN FALSE
    ELSE IF x.neg # y.neg THEN x.neg
    ELSE IF x.neg THEN MagLess(y, x)
    ELSE MagLess(x, y)

\* min(a, b) and max(a, b) of two floats: b when it is less (greater), else a
FloatMin(a, b) == IF FloatLess(b, a) THEN b ELSE a

FloatMax(a, b) == IF FloatLess(a, b) THEN b ELSE a

\* _float_pos(v, default): max(0.1, min(10.0, x))
_float_pos(v, default) ==
    IF ~FloatOk(v) THEN default
    ELSE FloatMax(Dec(FALSE, <<1>>, 0), FloatMin(Dec(FALSE, <<1>>, 2), FloatOf(v)))

\* _hex_color(v, default)
_hex_color(v, default) ==
    IF v.t = "str" /\ Len(v.v) \in {4, 7} /\ v.v # <<>> /\ v.v[1] = Ord("#")
    THEN v ELSE default

\* args.get(key, default)
Get(args, key, default) == IF key \in DOMAIN args THEN args[key] ELSE default

DefaultC1 == PyStr(Code(<<"#", "6", "7", "e", "8", "f", "9">>))

DefaultC2 == PyStr(Code(<<"#", "f", "0", "a", "b", "f", "c">>))

ThirdColor == PyStr(Code(<<"#", "a", "7", "f", "3", "d", "0">>))

\* _get_params(args)
_get_params(args) ==
    [fig   |-> Get(args, "fig", PyStr(Code(<<"c", "u", "r", "v", "e">>))),
     order |-> _clamp_int(Get(args, "order", PyInt(4)), 0, 7, 4),
     lw    |-> _float_pos(Get(args, "lw", PyFloat(Dec(FALSE, <<1, 8>>, 1))), Dec(FALSE, <<1>>, 1)),
     c1    |-> _hex_color(Get(args, "c1", DefaultC1), DefaultC1),
     c2    |-> _hex_color(Get(args, "c2", DefaultC2), DefaultC2)]

\* str(n) for an int n
RECURSIVE NatStr(_)
NatStr(n) ==
    IF n < 10 THEN <<Ord("0") + n>>
    ELSE NatStr(n \div 10) \o <<Ord("0") + (n % 10)>>

IntStr(n) == IF n < 0 THEN Code(<<"-">>) \o NatStr(-n) ELSE NatStr(n)

\* bool(v) for None or a str
Truthy(v) == v.t = "str" /\ v.v # <<>>

\* The (order, length) every call of koch_curve receives while
\* koch_curve(order, length, ...) runs at interpreter depth `depth`: the four
\* legs of a call receive the same order - 1 and seg.
RECURSIVE KochCallArgs(_, _, _)
KochCallArgs(order, length, depth) ==
    IF depth > RecursionLimit THEN {}
    ELSE {<<order, length>>} \cup
         (IF IsBaseCase(order) THEN {} ELSE KochCallArgs(order - 1, Third(length), depth + 1))

IsHexDigit(c) ==
    \/ c \in Ord("0") .. Ord("9")
    \/ c \in Ord("a") .. Ord("f")
    \/ c \in Ord("A") .. Ord("F")

\* ax.plot(..., color=v) accepts the str v: of the strings that start with
\* "#" the plotting library takes those with 3, 4, 6 or 8 hexadecimal digits,
\* and every colour plot() passes starts with "#".
PlotAcceptsColor(v) ==
    /\ v.t = "str"
    /\ Len(v.v) \in {4, 5, 7, 9}
    /\ v.v[1] = Ord("#")
    /\ \A i \in 2 .. Len(v.v) : IsHexDigit(v.v[i])

ValueError(color) == [kind |-> "raised", type |-> "ValueError", color |-> color]

\* The ax.plot calls made one after the other: all the lines, or the
\* ValueError of the first line whose colour is rejected.
PlotLines(lines) ==
    IF \A i \in 1 .. Len(lines) : PlotAcceptsColor(lines[i].color)
    THEN Returned(lines)
    ELSE ValueError(lines[CHOOSE i \in 1 .. Len(lines) :
                            /\ ~PlotAcceptsColor(lines[i].color)
                            /\ \A j \in 1 .. i - 1 : PlotAcceptsColor(lines[j].color)].color)

\* The generator call and the ax.plot(x, y, linewidth=lw, color=...) calls of
\* the branch taken: the lines drawn, or the exception raised.
Drawing(params) ==
    IF params.fig = PyStr(Code(<<"c", "u", "r", "v", "e">>))
    THEN LET r == koch_curve(params.order, Unit, <<-Unit, 0>>, 0)
         IN  IF r.kind = "raised" THEN r
             ELSE PlotLines(<<[pts |-> r.value, lw |-> params.lw, color |-> params.c1]>>)
    ELSE IF params.fig = PyStr(Code(<<"t", "w", "o">>))
    THEN LET r == koch_two_sides(params.order, Unit)
         IN  IF r.kind = "raised" THEN r
             ELSE PlotLines(<<[pts |-> r.value[1], lw |-> params.lw, color |-> params.c1],
                              [pts |-> r.value[2], lw |-> params.lw, color |-> params.c2]>>)
    ELSE LET r == koch_snowflake(params.order, Unit)
             colors == <<params.c1, params.c2, ThirdColor>>
         IN  IF r.kind = "raised" THEN r
             ELSE PlotLines([i \in 1 .. Len(r.value) |->
                               [pts |-> r.value[i], lw |-> params.lw,
                                color |-> colors[((i - 1) % Len(colors)) + 1]]])

\* f"koch_{params['fig']}_o{order}.{ext}"
FileName(params, ext) ==
    Code(<<"k", "o", "c", "h", "_">>) \o params.fig.v \o Code(<<"_", "o">>) \o IntStr(params.order) \o Code(<<".">>) \o ext

\* plot(): the response sent for the query string args; an exception raised
\* in the handler is answered with an error (status 500), no image.
PlotResponse(args) ==
    LET params   == _get_params(args)
        fmt      == Lower(Get(args, "fmt", PyStr(Code(<<"p", "n", "g">>))).v)
        download == Get(args, "download", None)
        drawn    == Drawing(params)
        svg      == fmt = Code(<<"s", "v", "g">>)
        ext      == IF svg THEN Code(<<"s", "v", "g">>) ELSE Code(<<"p", "n", "g">>)
    IN  IF drawn.kind = "raised"
        THEN [kind |-> "error", error |-> drawn, params |-> params,
              calls |-> KochCallArgs(params.order, Unit, 1)]
        ELSE [kind |-> "image",
              mimetype |-> IF svg THEN Code(<<"i", "m", "a", "g", "e", "/", "s", "v", "g", "+", "x", "m", "l">>) ELSE Code(<<"i", "m", "a", "g", "e", "/", "p", "n", "g">>),
              as_attachment |-> Truthy(download),
              download_name |-> FileName(params, ext),
              lines |-> drawn.value,
              params |-> params,
              calls |-> KochCallArgs(params.order, Unit, 1)]

\* -------------------------------------------------------- the requests
\* A query string: the keys present, each with its (string) value; opt is a
\* function from the keys to <<>> (absent) or <<code points>>.
Keys == {"fig", "order", "lw", "c1", "c2", "fmt", "download"}

Args(opt) == [k \in {q \in Keys : opt[q] # <<>>} |-> PyStr(opt[k][1])]

FigValues == {<<>>, <<Code(<<"c", "u", "r", "v", "e">>)>>, <<Code(<<"t", "w", "o">>)>>, <<Code(<<"s", "n", "o", "w">>)>>, <<Code(<<"s", "t", "a", "r">>)>>}

OrderValues ==
    {<<>>, <<Code(<<"a", "b", "c">>)>>, <<Code(<<"-", "3">>)>>, <<Code(<<"2">>)>>, <<Code(<<"7">>)>>, <<Code(<<"9", "9", "9">>)>>, <<Code(<<"+", "1">>)>>, << <<>> >>, <<Code(<<"3", "-">>)>>,
     <<Code(<<" ", "2", " ">>)>>, <<Code(<<"1", "_", "0">>)>>, <<Code(<<"_", "1">>)>>,
     \* "\v2", "2" U+00A0, U+2003 "5", U+001C "5" (no blank: refused),
     \* Arabic-Indic 3, "-" Devanagari 1, fullwidth 89
     <<<<11, 50>>>>, <<<<50, 160>>>>, <<<<8195, 53>>>>, <<<<28, 53>>>>,
     <<<<1635>>>>, <<<<45, 2407>>>>, <<<<65304, 65305>>>>}

C1Values == {<<>>, <<Code(<<"#", "f", "f", "f">>)>>, <<Code(<<"#", "g", "g", "g">>)>>, <<Code(<<"r", "e", "d">>)>>}

C2Values == {<<>>, <<Code(<<"#", "0", "A", "0", "b", "0", "c">>)>>, <<Code(<<"#", "1", "2", "3", "4", "5">>)>>, <<Code(<<"#", "z", "z", "z", "z", "z", "z">>)>>}

LwValues == {<<>>, <<Code(<<"2", ".", "5">>)>>, <<Code(<<"a", "b", "c">>)>>, <<Code(<<"5", "0">>)>>, <<Code(<<"-", "1">>)>>, <<Code(<<".", "0", "5">>)>>,
     <<Code(<<"1", "e", "1">>)>>, <<Code(<<"N", "a", "N">>)>>, <<Code(<<"2", "5", "E", "-", "1">>)>>, <<Code(<<"1", ".", "e">>)>>, <<Code(<<"-", "i", "n", "f">>)>>,
     <<Code(<<"9", ".", "9", "9", "9", "9", "9", "9", "9", "9", "9">>)>>,
     <<Code(<<"0", ".", "1", "0", "0", "0", "0", "0", "0", "0", "0", "0", "1">>)>>,
     <<Code(<<"1", "e", "-", "1", "2", "3", "4", "5", "6", "7", "8", "9", "0">>)>>,
     <<Code(<<"0", "0", "2", "e", "0", "0", "0", "0", "0", "0", "0", "0", "0", "0", "0">>)>>,
     \* "\vnan", "2.5" U+00A0, Arabic-Indic "3.5", fullwidth "1e1"
     <<<<11>> \o Code(<<"n", "a", "n">>)>>, <<Code(<<"2", ".", "5">>) \o <<160>>>>,
     <<<<1635, 46, 1637>>>>, <<<<65297, 101, 65297>>>>}

FmtValues == {<<>>, <<Code(<<"S", "V", "G">>)>>, <<Code(<<"s", "v", "g">>)>>, <<Code(<<"j", "p", "g">>)>>}

DownloadValues == {<<>>, <<Code(<<"1">>)>>, << <<>> >>}

Absent == [k \in Keys |-> <<>>]

Requests ==
    {Args([Absent EXCEPT !["fig"] = f, !["order"] = o]) :
        f \in FigValues, o \in OrderValues}
    \cup
    {Args([Absent EXCEPT !["fig"] = f, !["order"] = <<Code(<<"1">>)>>, !["c1"] = a, !["c2"] = b]) :
        f \in FigValues, a \in C1Values, b \in C2Values}
    \cup
    {Args([Absent EXCEPT !["lw"] = l, !["fmt"] = m, !["download"] = d]) :
        l \in LwValues, m \in FmtValues, d \in DownloadValues}

\* url_for("plot", **params, ...): the query arguments of the URL built.
PlotUrl(params, more) == [params |-> params, more |-> more]

\* index(): the page rendered for the query string args, with its three URLs.
IndexResponse(args) ==
    LET params == _get_params(args)
    IN  [kind |-> "page",
         params |-> params,
         plot_url |-> PlotUrl(params, [fmt |-> Code(<<"p", "n", "g">>), n |-> params.order]),
         download_png |-> PlotUrl(params, [fmt |-> Code(<<"p", "n", "g">>), download |-> 1]),
         download_svg |-> PlotUrl(params, [fmt |-> Code(<<"s", "v", "g">>), download |-> 1])]

\* A request for / or for /plot has arrived.
InitWeb ==
    /\ req \in {[kind |-> k, args |-> a] : k \in {"index", "plot"}, a \in Requests}
    /\ resp = NoResp
    /\ call = [fn |-> "none"]
    /\ result = NoResult
    /\ stack = <<>>

\* index()
Index ==
    /\ req.kind = "index"
    /\ resp = NoResp
    /\ resp' = IndexResponse(req.args)
    /\ UNCHANGED <<req, call, result, stack>>

\* plot()
Plot ==
    /\ req.kind = "plot"
    /\ resp = NoResp
    /\ resp' = PlotResponse(req.args)
    /\ UNCHANGED <<req, call, result, stack>>

NextWeb == Index \/ Plot

SpecWeb == InitWeb /\ [][NextWeb]_vars

\* ----------------------------------------------------- request claims
\* "#" followed by exactly 3 or exactly 6 hexadecimal digits
IsHexColor(v) ==
    /\ v.t = "str"
    /\ Len(v.v) \in {4, 7}
    /\ v.v[1] = Ord("#")
    /\ \A i \in 2 .. Len(v.v) : IsHexDigit(v.v[i])

\* C4: whatever the "order" query parameter, every call of koch_curve made
\* while serving a /plot request receives an order in 0..7 and a length > 0.
C4_CoreReceivesValidArgs ==
    (req.kind = "plot" /\ resp # NoResp) =>
        /\ resp.calls # {}
        /\ \A c \in resp.calls : c[1] \in 0 .. 7 /\ c[2] > 0

C4_Witness ==
    /\ req.kind = "plot"
    /\ resp # NoResp
    /\ "order" \in DOMAIN req.args
    /\ req.args["order"] = PyStr(Code(<<"-", "3">>))
    /\ resp.params.order = 0
    /\ resp.calls = {<<0, Unit>>}

\* C5: the colours c1 and c2 returned by _get_params are "#" followed by
\* exactly 3 or exactly 6 hexadecimal digits.
C5_ColorsAreHex ==
    resp # NoResp =>
        IsHexColor(resp.params.c1) /\ IsHexColor(resp.params.c2)

\* C8: the fig returned by _get_params and used by plot is one of "curve",
\* "two", "snow", and the request does not error.
C8_FigWhitelisted ==
    resp # NoResp =>
        /\ resp.params.fig \in {PyStr(Code(<<"c", "u", "r", "v", "e">>)), PyStr(Code(<<"t", "w", "o">>)), PyStr(Code(<<"s", "n", "o", "w">>))}
        /\ resp.kind # "error"

====
